---- MODULE Spec2Model ----
(***************************************************************************)
(* The orchestration core of the brainrot generator:                       *)
(*   - create_distraction_video (src/distraction.py): the selection loop   *)
(*     of the Distraction Assembler and its concatenation engine run;      *)
(*   - Variants.variantN, run_ffmpeg_command, delete_file_with_retry       *)
(*     (src/variants.py): the variant coroutines, the semaphore-gated      *)
(*     engine run and the cleanup;                                         *)
(*   - add_random_music_to_results (src/music.py): the mixer pass;         *)
(*   - main and its helpers (src/main.py): the synchronous entry point.    *)
(*                                                                         *)
(* Eight specifications share the module:                                  *)
(*   SpecAsm     the two sequential assembly calls of a two-artifact       *)
(*               variant, one selection-loop iteration per step;           *)
(*   SpecPair    the same calls on a folder of two clips of ClipLen        *)
(*               seconds, for a target between two and three clips;        *)
(*   Spec        NumJobs variant coroutines and the mixer pass on one      *)
(*               event loop, every outcome of every external call;         *)
(*   SpecStress  StressJobs variant coroutines and the mixer pass on a     *)
(*               host where no external call fails;                        *)
(*   SpecDelete  delete_file_with_retry called several times in a row;     *)
(*   SpecMain    one run of main() of src/main.py, statement by statement; *)
(*   SpecMix     one call of add_random_music_to_results on any result     *)
(*               folder;                                                   *)
(*   SpecCmd     a Variants object built for any mode string, the engine   *)
(*               argument list of one variant, one run_ffmpeg_command.     *)
(***************************************************************************)
EXTENDS Integers, Sequences, FiniteSets, TLC

-----------------------------------------------------------------------------
(* Bounds of the model. *)

MaxClips == 3       \* clips that may lie in the distraction folder
MaxDur == 2         \* largest probed clip duration
MaxTarget == 3      \* largest requested target duration
MaxPicks == 5       \* cap on the length of file_list (loops over 0-length clips)
ClipLen == 10       \* duration of each clip of the two-clip pool of SpecPair

FirstJob == 2       \* first variant launched in Spec
NumJobs == 2        \* variant coroutines launched in Spec
StressJobs == 5     \* variant coroutines launched in SpecStress
MaxTracks == 1      \* audio tracks that may lie in the music folder
MaxPaths == 2       \* paths a delete call may be given
MaxCalls == 2       \* delete calls made in a row
MaxVideos == 1      \* variants with videos in the mixer's result folder
MaxModeLen == 3     \* longest --hwaccel string given to Variants

(* Program constants. *)

Capacity == 4       \* asyncio.Semaphore(4)
Retries == 3        \* delete_file_with_retry(retries=3)
NumVariants == 8    \* variant1 .. variant8, called by main()

Clips == 1..MaxClips
Durations == 0..MaxDur
Targets == 0..MaxTarget

VARIABLES
    \* ---- create_distraction_video, as called twice by a two-artifact variant
    videos,          \* the clips the glob finds in distraction_folder
    probe,           \* clip -> what get_video_duration does on it
    duration,        \* the requested target duration (main_duration)
    call,            \* 1: first assembly call, 2: second assembly call
    apc,             \* position inside the current call
    exclude_list,    \* parameter exclude_list of the current call
    used_videos,     \* local used_videos
    total_duration,  \* local total_duration
    file_list,       \* local file_list (the manifest lines, as clips)
    tempfiles,       \* temp_distraction_* files on disk: <<call, "list" | "video">>
    ret              \* what the calls made so far returned or raised

asmVars == <<videos, probe, duration, call, apc, exclude_list, used_videos,
             total_duration, file_list, tempfiles, ret>>

VARIABLES
    \* ---- the variant coroutines and the mixer pass on one event loop
    faults,          \* whether external calls (ffprobe, ffmpeg, unlink) may fail
    pc,              \* variant -> position of its coroutine
    semaphore,       \* the value of self.semaphore
    failed,          \* variant -> the step whose failure ended its pipeline
    outcome,         \* variant -> how the coroutine ended
    exc,             \* variant -> the exception propagating out of its body
    made,            \* variant -> temporary files its assembly calls wrote
    disk,            \* variant -> its files now on disk (temporaries, "out")
    attempted,       \* variant -> artifacts a deletion was attempted for
    tries,           \* variant -> attempts made by the running delete call
    music_files,     \* the audio tracks the mixer found in music_folder
    mixer,           \* position of add_random_music_to_results
    mix              \* result video (by variant) -> position of its mix task

jobVars == <<faults, pc, semaphore, failed, outcome, exc, made, disk, attempted,
             tries, music_files, mixer, mix>>

VARIABLES
    \* ---- delete_file_with_retry, called several times in a row
    fs,              \* the paths that exist on the file system
    file_path,       \* parameter file_path of the running call
    attempt,         \* loop variable `attempt` of the running call
    dpc,             \* position inside the running call
    calls            \* the calls made so far, the running one last

delVars == <<fs, file_path, attempt, dpc, calls>>

VARIABLES
    \* ---- one run of the synchronous entry point, src/main.py
    MAIN_VIDEO,          \* whether the main video path is a file
    DISTRACTION_FOLDER,  \* the clips lying in the distraction folder
    MUSIC_FOLDER,        \* the audio tracks lying in the music folder
    ADD_MUSIC,           \* the --add_music setting
    RESULT_FOLDER,       \* the videos in the result folder: <<variant, n>>
                         \* is variant<variant>.mp4 with n `_music` suffixes
    ip,                  \* the statement of main() being executed
    step,                \* position inside that statement
    job,                 \* variant -> "pending", "running", "finished", "failed"
    listed,              \* the folders whose content has been listed
    engines,             \* engine runs made by the assembler and the variants
    mixes,               \* engine runs made by the mixer
    todo,                \* the result videos the mixer loop has yet to take
    error,               \* the exception that reached the handler of __main__
    exit_status          \* "running", "zero", "nonzero"

runVars == <<MAIN_VIDEO, DISTRACTION_FOLDER, MUSIC_FOLDER, ADD_MUSIC,
             RESULT_FOLDER, ip, step, job, listed, engines, mixes, todo,
             error, exit_status>>

VARIABLES
    \* ---- one call of add_random_music_to_results, src/music.py
    result_folder,   \* the videos in result_folder, named as in RESULT_FOLDER
    overwrite_files, \* parameter overwrite_files
    tasks,           \* input video -> position of its add_music_to_video task
    written          \* the paths the mixer's engine runs have written

mixVars == <<result_folder, overwrite_files, tasks, written>>

VARIABLES
    \* ---- a Variants object, one engine command, one run_ffmpeg_command
    main_video,      \* str(self.main_video)
    hwaccel,         \* parameter hwaccel of Variants.__init__
    self_hwaccel,    \* self.hwaccel
    overwrite,       \* self.overwrite_files
    variant,         \* the variant that built the command, 0 before
    command,         \* the argument list `command`
    rpc,             \* position: "off", "new", "constructed", "built",
                     \* "communicate", "returned", "raised"
    spawns,          \* calls of asyncio.create_subprocess_exec made
    returncode,      \* process.returncode: "None", "0", "1", "-9"
    process          \* the engine process: "none", "running", "exited"

cmdVars == <<main_video, hwaccel, self_hwaccel, overwrite, variant, command,
             rpc, spawns, returncode, process>>

otherVars == <<delVars, runVars, mixVars, cmdVars>>

vars == <<asmVars, jobVars, otherVars>>

-----------------------------------------------------------------------------
(* Sequence helpers. *)

Range(s) == {s[i] : i \in 1..Len(s)}

Last(s) == s[Len(s)]

RECURSIVE SumDur(_)
SumDur(s) == IF s = <<>> THEN 0 ELSE probe[Head(s)].d + SumDur(Tail(s))

-----------------------------------------------------------------------------
(* create_distraction_video: src/distraction.py *)

\* get_video_duration on a clip: a float, or an exception when ffprobe prints
\* no number.
ProbeResults ==
    {[ok |-> TRUE, d |-> x] : x \in Durations} \cup {[ok |-> FALSE, d |-> 0]}

\* What a call that raised leaves to its caller.
Raised(kind) ==
    [status |-> "error", kind |-> kind, used |-> <<>>, manifest |-> <<>>,
     total |-> 0, excl |-> exclude_list]

\* What a call that returned leaves to its caller: line 93 returns
\* used_videos; manifest and total are what the call wrote and accumulated.
Returned ==
    [status |-> "ok", kind |-> "none", used |-> used_videos,
     manifest |-> file_list, total |-> total_duration, excl |-> exclude_list]

\* No variant coroutine is scheduled.
NoJobs ==
    /\ faults = TRUE
    /\ pc = <<>>
    /\ semaphore = Capacity
    /\ failed = <<>>
    /\ outcome = <<>>
    /\ exc = <<>>
    /\ made = <<>>
    /\ disk = <<>>
    /\ attempted = <<>>
    /\ tries = <<>>
    /\ music_files = {}
    /\ mixer = "off"
    /\ mix = <<>>

\* No delete_file_with_retry call is modelled on its own.
NoDeleteCall ==
    /\ fs = {}
    /\ file_path = 0
    /\ attempt = 0
    /\ dpc = "off"
    /\ calls = <<>>

\* No run of the synchronous entry point is modelled.
NoRun ==
    /\ MAIN_VIDEO = FALSE
    /\ DISTRACTION_FOLDER = {}
    /\ MUSIC_FOLDER = {}
    /\ ADD_MUSIC = FALSE
    /\ RESULT_FOLDER = {}
    /\ ip = 0
    /\ step = "off"
    /\ job = <<>>
    /\ listed = {}
    /\ engines = 0
    /\ mixes = 0
    /\ todo = {}
    /\ error = "none"
    /\ exit_status = "running"

\* No mixer call is modelled on its own.
NoMixerCall ==
    /\ result_folder = {}
    /\ overwrite_files = FALSE
    /\ tasks = <<>>
    /\ written = {}

\* No engine command is modelled on its own.
NoCommand ==
    /\ main_video = ""
    /\ hwaccel = <<>>
    /\ self_hwaccel = <<>>
    /\ overwrite = FALSE
    /\ variant = 0
    /\ command = <<>>
    /\ rpc = "off"
    /\ spawns = 0
    /\ returncode = "None"
    /\ process = "none"

InitAsm ==
    /\ NoJobs
    /\ NoDeleteCall
    /\ NoRun
    /\ NoMixerCall
    /\ NoCommand
    /\ videos \in {1..k : k \in 0..MaxClips}
    /\ probe \in [videos -> ProbeResults]
    /\ duration \in Targets
    /\ call = 1
    /\ apc = "enter"
    /\ exclude_list = <<>>
    /\ used_videos = <<>>
    /\ total_duration = 0
    /\ file_list = <<>>
    /\ tempfiles = {}
    /\ ret = <<>>

\* Lines 13-23: the glob, the empty-folder error, the locals.
AsmEnter ==
    /\ apc = "enter"
    /\ IF videos = {}
       THEN /\ ret' = Append(ret, Raised("NoCandidates"))
            /\ apc' = "aborted"
       ELSE /\ apc' = "loop"
            /\ ret' = ret
    /\ used_videos' = <<>>
    /\ total_duration' = 0
    /\ file_list' = <<>>
    /\ UNCHANGED <<videos, probe, duration, call, exclude_list, tempfiles>>
    /\ UNCHANGED jobVars
    /\ UNCHANGED otherVars

\* Line 26 without its exclude_list filter.
AvailableIgnoringExclude(used, excl) ==
    {v \in videos : v \notin Range(used)}

\* Line 26 without its used_videos filter.
AvailableAnyClip(used, excl) ==
    {v \in videos : v \notin Range(excl)}

\* Line 26: the clips neither used since the last reset nor excluded.
Available(used, excl) ==
    {v \in videos : v \notin Range(used) /\ v \notin Range(excl)}

\* Line 31 without its last_used filter.
AvailableAfterResetAnyClip(used, excl) ==
    {v \in videos : v \notin Range(excl)}

\* Lines 29-31: after the reset, every clip but the previous pick and the
\* excluded ones (last_used is None when nothing was used).
AvailableAfterReset(used, excl) ==
    {v \in videos : (used # <<>> => v # Last(used)) /\ v \notin Range(excl)}

\* Lines 25-41: one iteration of the while loop.
LoopIter ==
    /\ apc = "loop"
    /\ total_duration < duration
    /\ Len(file_list) < MaxPicks
    /\ LET avail0 == Available(used_videos, exclude_list)
           reset == avail0 = {}
           usedR == IF reset THEN <<>> ELSE used_videos
           avail == IF reset
                    THEN AvailableAfterReset(used_videos, exclude_list)
                    ELSE avail0
       IN  IF avail = {}
           THEN \* line 33: break
                /\ apc' = "after"
                /\ used_videos' = usedR
                /\ UNCHANGED <<total_duration, file_list, ret>>
           ELSE \E video \in avail :
                IF usedR # <<>> /\ video = Last(usedR)
                THEN \* line 37: continue
                     /\ used_videos' = usedR
                     /\ UNCHANGED <<apc, total_duration, file_list, ret>>
                ELSE /\ used_videos' = Append(usedR, video)
                     /\ IF probe[video].ok
                        THEN /\ total_duration' = total_duration + probe[video].d
                             /\ file_list' = Append(file_list, video)
                             /\ UNCHANGED <<apc, ret>>
                        ELSE \* get_video_duration raises
                             /\ ret' = Append(ret, Raised("ProbeFailure"))
                             /\ apc' = "aborted"
                             /\ UNCHANGED <<total_duration, file_list>>
    /\ UNCHANGED <<videos, probe, duration, call, exclude_list, tempfiles>>
    /\ UNCHANGED jobVars
    /\ UNCHANGED otherVars

\* Line 25: the loop condition is false.
LoopExit ==
    /\ apc = "loop"
    /\ ~(total_duration < duration)
    /\ apc' = "after"
    /\ UNCHANGED <<videos, probe, duration, call, exclude_list, used_videos,
                   total_duration, file_list, tempfiles, ret>>
    /\ UNCHANGED jobVars
    /\ UNCHANGED otherVars

\* The manifest and the engine spawn without the empty-selection error.
AsmSpawnNoEmptyCheck ==
    /\ apc = "after"
    /\ tempfiles' = tempfiles \cup {<<call, "list">>}
    /\ \E spawned \in BOOLEAN :
         IF spawned
         THEN apc' = "concat" /\ ret' = ret
         ELSE /\ ret' = Append(ret, Raised("SpawnFailure"))
              /\ apc' = "aborted"
    /\ UNCHANGED <<videos, probe, duration, call, exclude_list, used_videos,
                   total_duration, file_list>>
    /\ UNCHANGED jobVars
    /\ UNCHANGED otherVars

\* Lines 43-83: the empty-selection error, the manifest, the engine spawn.
AsmSpawn ==
    /\ apc = "after"
    /\ IF file_list = <<>>
       THEN /\ ret' = Append(ret, Raised("InsufficientClips"))
            /\ apc' = "aborted"
            /\ UNCHANGED tempfiles
       ELSE /\ tempfiles' = tempfiles \cup {<<call, "list">>}
            /\ \E spawned \in BOOLEAN :
                 IF spawned
                 THEN apc' = "concat" /\ ret' = ret
                 ELSE /\ ret' = Append(ret, Raised("SpawnFailure"))
                      /\ apc' = "aborted"
    /\ UNCHANGED <<videos, probe, duration, call, exclude_list, used_videos,
                   total_duration, file_list>>
    /\ UNCHANGED jobVars
    /\ UNCHANGED otherVars

\* Lines 85-93: the engine exits; non-zero raises, zero unlinks the manifest
\* and returns. A failed engine may or may not leave its output file.
AsmConcatExit ==
    /\ apc = "concat"
    /\ \E rc \in {0, 1} :
         IF rc # 0
         THEN /\ ret' = Append(ret, Raised("EngineFailure"))
              /\ apc' = "aborted"
              /\ \E partial \in BOOLEAN :
                   tempfiles' = IF partial
                                THEN tempfiles \cup {<<call, "video">>}
                                ELSE tempfiles
         ELSE /\ ret' = Append(ret, Returned)
              /\ apc' = "returned"
              /\ tempfiles' = (tempfiles \cup {<<call, "video">>})
                                  \ {<<call, "list">>}
    /\ UNCHANGED <<videos, probe, duration, call, exclude_list, used_videos,
                   total_duration, file_list>>
    /\ UNCHANGED jobVars
    /\ UNCHANGED otherVars

\* src/variants.py lines 126-138: the second call of a two-artifact variant
\* gets the first call's returned list as its exclude_list.
SecondCall ==
    /\ apc = "returned"
    /\ call = 1
    /\ call' = 2
    /\ exclude_list' = ret[1].used
    /\ apc' = "enter"
    /\ UNCHANGED <<videos, probe, duration, used_videos, total_duration,
                   file_list, tempfiles, ret>>
    /\ UNCHANGED jobVars
    /\ UNCHANGED otherVars

NextAsm ==
    \/ AsmEnter
    \/ LoopIter
    \/ LoopExit
    \/ AsmSpawn
    \/ AsmConcatExit
    \/ SecondCall

SpecAsm == InitAsm /\ [][NextAsm]_vars

\* The first call on a folder of two clips, each probed as ClipLen seconds,
\* for a target longer than two clips and no longer than three.
InitPair ==
    /\ NoJobs
    /\ NoDeleteCall
    /\ NoRun
    /\ NoMixerCall
    /\ NoCommand
    /\ videos = 1..2
    /\ probe = [v \in videos |-> [ok |-> TRUE, d |-> ClipLen]]
    /\ duration \in (2 * ClipLen + 1)..(3 * ClipLen)
    /\ call = 1
    /\ apc = "enter"
    /\ exclude_list = <<>>
    /\ used_videos = <<>>
    /\ total_duration = 0
    /\ file_list = <<>>
    /\ tempfiles = {}
    /\ ret = <<>>

SpecPair == InitPair /\ [][NextAsm]_vars

-----------------------------------------------------------------------------
(* The variant coroutines: src/variants.py.  One action is the code a      *)
(* coroutine runs between two suspension points of the event loop.         *)

\* Every variant taken to assemble two artifacts.
TwoArtifactsAll == 1..NumVariants

\* variant1, variant2, variant5 and variant6 assemble two artifacts, the
\* other four one.
TwoArtifacts == {1, 2, 5, 6}

Jobs == DOMAIN pc

\* The outcomes an external call can have on this host.
May(outcomes, good) == IF faults THEN outcomes ELSE {good}

ListFile(k) == IF k = 1 THEN "list1" ELSE "list2"

VideoFile(k) == IF k = 1 THEN "video1" ELSE "video2"

\* No assembly call is modelled step by step.
NoAssembly ==
    /\ videos = {}
    /\ probe = <<>>
    /\ duration = 0
    /\ call = 1
    /\ apc = "off"
    /\ exclude_list = <<>>
    /\ used_videos = <<>>
    /\ total_duration = 0
    /\ file_list = <<>>
    /\ tempfiles = {}
    /\ ret = <<>>

\* The scheduler has created the coroutines of n variants, from variant
\* `first` on, on one event loop, all sharing one semaphore; none has run yet.
Launch(first, n) ==
    /\ pc = [j \in first..(first + n - 1) |-> "start"]
    /\ semaphore = Capacity
    /\ failed = [j \in DOMAIN pc |-> "none"]
    /\ outcome = [j \in DOMAIN pc |-> "pending"]
    /\ exc = [j \in DOMAIN pc |-> "none"]
    /\ made = [j \in DOMAIN pc |-> {}]
    /\ disk = [j \in DOMAIN pc |-> {}]
    /\ attempted = [j \in DOMAIN pc |-> {}]
    /\ tries = [j \in DOMAIN pc |-> 0]
    /\ music_files = {}
    /\ mixer = "off"
    /\ mix = [j \in DOMAIN pc |-> "none"]

Init ==
    /\ NoAssembly
    /\ faults = TRUE
    /\ Launch(FirstJob, NumJobs)
    /\ NoDeleteCall
    /\ NoRun
    /\ NoMixerCall
    /\ NoCommand

InitStress ==
    /\ NoAssembly
    /\ faults = FALSE
    /\ Launch(1, StressJobs)
    /\ NoDeleteCall
    /\ NoRun
    /\ NoMixerCall
    /\ NoCommand

\* A release written after the awaited call instead of an `async with`.
ReleaseOnSuccess(sem, how) == IF how = "ok" THEN sem + 1 ELSE sem

\* Lines 77 of src/variants.py and 29 of src/music.py: the permit is given
\* back when the `async with` block is left, however it is left: "ok",
\* "nonzero", "spawn", "exception".
ReleaseOnExit(sem, how) == sem + 1

\* Line 123: get_video_duration(self.main_video), before the try block.
VariantStart(j) ==
    /\ pc[j] = "start"
    /\ \E probed \in May({TRUE, FALSE}, TRUE) :
         IF probed
         THEN /\ pc' = [pc EXCEPT ![j] = "asm1"]
              /\ UNCHANGED <<failed, outcome, exc>>
         ELSE \* no handler encloses line 123
              /\ pc' = [pc EXCEPT ![j] = "done"]
              /\ failed' = [failed EXCEPT ![j] = "probe"]
              /\ exc' = [exc EXCEPT ![j] = "ProbeFailure"]
              /\ outcome' = [outcome EXCEPT ![j] = "raised"]
    /\ UNCHANGED <<faults, semaphore, made, disk, attempted, tries,
                   music_files, mixer, mix>>
    /\ UNCHANGED asmVars
    /\ UNCHANGED otherVars

\* A handler for subprocess.CalledProcessError only.
ExceptCalledProcessError(kind) ==
    IF kind = "CalledProcessError" THEN "none" ELSE kind

\* Lines 139 and 174: `except Exception as e` handles the exception raised
\* in the try body; the result is what still propagates after the handler.
ExceptException(kind) == "none"

\* Lines 139-141: the handler of the assembly calls logs and returns.
AbortAssembly(j) ==
    LET e == ExceptException("AssemblyFailure")
    IN  /\ pc' = [pc EXCEPT ![j] = "done"]
        /\ failed' = [failed EXCEPT ![j] = "assembly"]
        /\ exc' = [exc EXCEPT ![j] = e]
        /\ outcome' = [outcome EXCEPT ![j] = IF e = "none" THEN "returned"
                                                           ELSE "raised"]

\* Lines 126-138 with src/distraction.py lines 13-83: an assembly call up to
\* its suspension on the concatenation engine. The selection loop does not
\* suspend; it ends with an error, or with a manifest and a spawn.
Assemble(j) ==
    /\ pc[j] \in {"asm1", "asm2"}
    /\ LET k == IF pc[j] = "asm1" THEN 1 ELSE 2
       IN  \E r \in May({"spawned", "no_selection", "no_spawn"}, "spawned") :
             CASE r = "no_selection" ->
                    /\ AbortAssembly(j)
                    /\ UNCHANGED <<made, disk>>
               [] r = "no_spawn" ->
                    /\ AbortAssembly(j)
                    /\ made' = [made EXCEPT ![j] = @ \cup {ListFile(k)}]
                    /\ disk' = [disk EXCEPT ![j] = @ \cup {ListFile(k)}]
               [] r = "spawned" ->
                    /\ pc' = [pc EXCEPT ![j] = IF k = 1 THEN "concat1"
                                                        ELSE "concat2"]
                    /\ made' = [made EXCEPT ![j] = @ \cup {ListFile(k)}]
                    /\ disk' = [disk EXCEPT ![j] = @ \cup {ListFile(k)}]
                    /\ UNCHANGED <<failed, outcome, exc>>
    /\ UNCHANGED <<faults, semaphore, attempted, tries, music_files, mixer,
                   mix>>
    /\ UNCHANGED asmVars
    /\ UNCHANGED otherVars

\* src/distraction.py lines 85-93: the concatenation engine exits. The
\* process was spawned at line 79 with no permit taken.
ConcatExit(j) ==
    /\ pc[j] \in {"concat1", "concat2"}
    /\ LET k == IF pc[j] = "concat1" THEN 1 ELSE 2
       IN  \E rc \in May({0, 1}, 0) :
             IF rc # 0
             THEN /\ AbortAssembly(j)
                  /\ UNCHANGED <<made, disk>>
             ELSE /\ pc' = [pc EXCEPT ![j] =
                              IF k = 1 /\ j \in TwoArtifacts THEN "asm2"
                                                             ELSE "run"]
                  /\ made' = [made EXCEPT ![j] = @ \cup {VideoFile(k)}]
                  /\ disk' = [disk EXCEPT ![j] =
                                (@ \ {ListFile(k)}) \cup {VideoFile(k)}]
                  /\ UNCHANGED <<failed, outcome, exc>>
    /\ UNCHANGED <<faults, semaphore, attempted, tries, music_files, mixer,
                   mix>>
    /\ UNCHANGED asmVars
    /\ UNCHANGED otherVars

\* Lines 77-83 of run_ffmpeg_command: take a permit, spawn the engine. A
\* spawn error leaves the `async with` block and is caught at line 174.
RunEngine(j) ==
    /\ pc[j] = "run"
    /\ semaphore > 0
    /\ \E spawned \in May({TRUE, FALSE}, TRUE) :
         IF spawned
         THEN /\ semaphore' = semaphore - 1
              /\ pc' = [pc EXCEPT ![j] = "engine"]
              /\ UNCHANGED <<failed, exc>>
         ELSE /\ semaphore' = ReleaseOnExit(semaphore - 1, "spawn")
              /\ pc' = [pc EXCEPT ![j] = "clean1"]
              /\ failed' = [failed EXCEPT ![j] = "engine"]
              /\ exc' = [exc EXCEPT ![j] = ExceptException("SpawnFailure")]
    /\ UNCHANGED <<faults, outcome, made, disk, attempted, tries,
                   music_files, mixer, mix>>
    /\ UNCHANGED asmVars
    /\ UNCHANGED otherVars

\* Lines 85-97 and 174-176: the engine exits with 0 or not, or awaiting it
\* raises (kill, wait, re-raise); the permit goes back; the variant logs an
\* error and enters its finally block.
EngineExit(j) ==
    /\ pc[j] = "engine"
    /\ \E how \in May({"ok", "nonzero", "exception"}, "ok") :
         /\ semaphore' = ReleaseOnExit(semaphore, how)
         /\ IF how = "ok"
            THEN /\ disk' = [disk EXCEPT ![j] = @ \cup {"out"}]
                 /\ UNCHANGED <<failed, exc>>
            ELSE /\ failed' = [failed EXCEPT ![j] = "engine"]
                 /\ exc' = [exc EXCEPT ![j] = ExceptException("EngineFailure")]
                 /\ UNCHANGED disk
    /\ pc' = [pc EXCEPT ![j] = "clean1"]
    /\ UNCHANGED <<faults, outcome, made, attempted, tries, music_files,
                   mixer, mix>>
    /\ UNCHANGED asmVars
    /\ UNCHANGED otherVars

\* Lines 176-179 (301 for a one-artifact variant): what follows the delete
\* call of artifact k in the finally block; at its end an exception the try
\* statement did not handle goes on propagating.
AfterDelete(j, k) ==
    IF k = 1 /\ j \in TwoArtifacts
    THEN /\ pc' = [pc EXCEPT ![j] = "clean2"]
         /\ UNCHANGED outcome
    ELSE /\ pc' = [pc EXCEPT ![j] = "done"]
         /\ outcome' = [outcome EXCEPT ![j] = IF exc[j] = "none"
                                              THEN "returned" ELSE "raised"]

\* Lines 107-114 of delete_file_with_retry: one unlink attempt. It deletes
\* the file, or raises PermissionError (caught, then sleep), or raises
\* another OSError, which nothing catches.
Delete(j) ==
    /\ pc[j] \in {"clean1", "clean2"}
    /\ LET k == IF pc[j] = "clean1" THEN 1 ELSE 2
       IN  /\ attempted' = [attempted EXCEPT ![j] = @ \cup {VideoFile(k)}]
           /\ \E r \in May({"deleted", "permission", "oserror"}, "deleted") :
                CASE r = "deleted" ->
                       /\ disk' = [disk EXCEPT ![j] = @ \ {VideoFile(k)}]
                       /\ tries' = [tries EXCEPT ![j] = 0]
                       /\ AfterDelete(j, k)
                       /\ UNCHANGED exc
                  [] r = "permission" ->
                       /\ tries' = [tries EXCEPT ![j] = @ + 1]
                       /\ pc' = [pc EXCEPT ![j] = IF k = 1 THEN "sleep1"
                                                           ELSE "sleep2"]
                       /\ UNCHANGED <<disk, outcome, exc>>
                  [] r = "oserror" ->
                       /\ pc' = [pc EXCEPT ![j] = "done"]
                       /\ exc' = [exc EXCEPT ![j] = "OSError"]
                       /\ outcome' = [outcome EXCEPT ![j] = "raised"]
                       /\ tries' = [tries EXCEPT ![j] = 0]
                       /\ UNCHANGED disk
    /\ UNCHANGED <<faults, semaphore, failed, made, music_files, mixer, mix>>
    /\ UNCHANGED asmVars
    /\ UNCHANGED otherVars

\* Lines 107 and 114-115: the sleep ends; the loop goes on to the next
\* attempt or, after the last one, logs the error and returns.
Retry(j) ==
    /\ pc[j] \in {"sleep1", "sleep2"}
    /\ LET k == IF pc[j] = "sleep1" THEN 1 ELSE 2
       IN  IF tries[j] < Retries
           THEN /\ pc' = [pc EXCEPT ![j] = IF k = 1 THEN "clean1"
                                                    ELSE "clean2"]
                /\ UNCHANGED <<tries, outcome>>
           ELSE /\ tries' = [tries EXCEPT ![j] = 0]
                /\ AfterDelete(j, k)
    /\ UNCHANGED <<faults, semaphore, failed, exc, made, disk, attempted,
                   music_files, mixer, mix>>
    /\ UNCHANGED asmVars
    /\ UNCHANGED otherVars

-----------------------------------------------------------------------------
(* The mixer pass: src/music.py. *)

\* The join barrier before the mixer pass: every variant coroutine has ended.
AllVariantsSettled == \A j \in Jobs : pc[j] = "done"

\* result_folder.glob('*.mp4'), by the variant that wrote the video.
video_files == {j \in Jobs : "out" \in disk[j]}

\* Lines 10-24 and 53-59 of add_random_music_to_results: the two listings,
\* the early returns, one task per result video.
StartMixer ==
    /\ AllVariantsSettled
    /\ mixer = "off"
    /\ \E tracks \in {1..k : k \in 0..MaxTracks} :
         /\ music_files' = tracks
         /\ IF tracks = {} \/ video_files = {}
            THEN /\ mixer' = "returned"
                 /\ UNCHANGED mix
            ELSE /\ mixer' = "gather"
                 /\ mix' = [j \in Jobs |-> IF j \in video_files THEN "wait"
                                                                ELSE "none"]
    /\ UNCHANGED <<faults, pc, semaphore, failed, outcome, exc, made, disk,
                   attempted, tries>>
    /\ UNCHANGED asmVars
    /\ UNCHANGED otherVars

\* Lines 29-44 of add_music_to_video: take a permit, spawn the engine. A
\* spawn error leaves the `async with` block and ends the task.
MixStart(v) ==
    /\ mix[v] = "wait"
    /\ semaphore > 0
    /\ \E spawned \in May({TRUE, FALSE}, TRUE) :
         IF spawned
         THEN /\ semaphore' = semaphore - 1
              /\ mix' = [mix EXCEPT ![v] = "mixing"]
         ELSE /\ semaphore' = ReleaseOnExit(semaphore - 1, "spawn")
              /\ mix' = [mix EXCEPT ![v] = "raised"]
    /\ UNCHANGED <<faults, pc, failed, outcome, exc, made, disk, attempted,
                   tries, music_files, mixer>>
    /\ UNCHANGED asmVars
    /\ UNCHANGED otherVars

\* Lines 46-51: the engine exits; a non-zero exit is printed, an exception
\* while awaiting the process ends the task; the permit goes back.
MixExit(v) ==
    /\ mix[v] = "mixing"
    /\ \E how \in May({"ok", "nonzero", "exception"}, "ok") :
         /\ semaphore' = ReleaseOnExit(semaphore, how)
         /\ mix' = [mix EXCEPT ![v] = CASE how = "ok" -> "mixed"
                                        [] how = "nonzero" -> "failed"
                                        [] how = "exception" -> "raised"]
    /\ UNCHANGED <<faults, pc, failed, outcome, exc, made, disk, attempted,
                   tries, music_files, mixer>>
    /\ UNCHANGED asmVars
    /\ UNCHANGED otherVars

Next ==
    \/ \E j \in Jobs : VariantStart(j)
    \/ \E j \in Jobs : Assemble(j)
    \/ \E j \in Jobs : ConcatExit(j)
    \/ \E j \in Jobs : RunEngine(j)
    \/ \E j \in Jobs : EngineExit(j)
    \/ \E j \in Jobs : Delete(j)
    \/ \E j \in Jobs : Retry(j)
    \/ StartMixer
    \/ \E v \in Jobs : MixStart(v)
    \/ \E v \in Jobs : MixExit(v)

Spec == Init /\ [][Next]_vars

\* On a host without faults no delete call sleeps.
NextStress ==
    \/ \E j \in Jobs : VariantStart(j)
    \/ \E j \in Jobs : Assemble(j)
    \/ \E j \in Jobs : ConcatExit(j)
    \/ \E j \in Jobs : RunEngine(j)
    \/ \E j \in Jobs : EngineExit(j)
    \/ \E j \in Jobs : Delete(j)
    \/ StartMixer
    \/ \E v \in Jobs : MixStart(v)
    \/ \E v \in Jobs : MixExit(v)

SpecStress == InitStress /\ [][NextStress]_vars

-----------------------------------------------------------------------------
(* delete_file_with_retry on its own: src/variants.py lines 99-115. Calls   *)
(* are made one after the other, each on any path, present or not.          *)

Paths == 1..MaxPaths

\* An unlink for which a missing file is an error (FileNotFoundError).
UnlinkStrict(present) ==
    IF present THEN {"deleted", "permission", "oserror"} ELSE {"oserror"}

\* Line 109: what file_path.unlink(missing_ok=True) can do. On a file that
\* exists it deletes it, raises PermissionError, or raises another OSError;
\* a missing file is not an error.
Unlink(present) ==
    IF present THEN {"deleted", "permission", "oserror"} ELSE {"missing"}

\* A loop that runs once more than range(retries).
InRangeInclusive(n) == n <= Retries

\* Line 107: `for attempt in range(retries)` has an iteration for n.
InRange(n) == n < Retries

InitDelete ==
    /\ NoAssembly
    /\ NoJobs
    /\ NoRun
    /\ NoMixerCall
    /\ NoCommand
    /\ fs \in SUBSET Paths
    /\ file_path = 0
    /\ attempt = 0
    /\ dpc = "idle"
    /\ calls = <<>>

\* Line 99 and the first evaluation of line 107: a call is made.
DeleteCall ==
    /\ dpc = "idle"
    /\ Len(calls) < MaxCalls
    /\ \E p \in Paths :
         /\ file_path' = p
         /\ calls' = Append(calls, [path |-> p, before |-> fs, after |-> fs,
                                    unlinks |-> 0, waits |-> 0,
                                    result |-> "running", log |-> "none"])
    /\ attempt' = 0
    /\ dpc' = IF InRange(0) THEN "unlink" ELSE "idle"
    /\ UNCHANGED fs
    /\ UNCHANGED <<asmVars, jobVars, runVars, mixVars, cmdVars>>

\* Lines 108-113: one attempt. A deletion (or a file already missing) is
\* logged and the call returns; a PermissionError is logged as a warning;
\* any other exception leaves the call.
DeleteAttempt ==
    /\ dpc = "unlink"
    /\ \E r \in Unlink(file_path \in fs) :
         LET n == Len(calls)
             c == [calls[n] EXCEPT !.unlinks = @ + 1]
         IN  CASE r = "deleted" ->
                    /\ fs' = fs \ {file_path}
                    /\ calls' = [calls EXCEPT ![n] =
                                   [c EXCEPT !.after = fs \ {file_path},
                                             !.result = "returned",
                                             !.log = "info"]]
                    /\ dpc' = "idle"
               [] r = "missing" ->
                    /\ fs' = fs
                    /\ calls' = [calls EXCEPT ![n] =
                                   [c EXCEPT !.after = fs,
                                             !.result = "returned",
                                             !.log = "info"]]
                    /\ dpc' = "idle"
               [] r = "permission" ->
                    /\ fs' = fs
                    /\ calls' = [calls EXCEPT ![n] =
                                   [c EXCEPT !.log = "warning"]]
                    /\ dpc' = "sleep"
               [] r = "oserror" ->
                    /\ fs' = fs
                    /\ calls' = [calls EXCEPT ![n] =
                                   [c EXCEPT !.after = fs,
                                             !.result = "raised"]]
                    /\ dpc' = "idle"
    /\ UNCHANGED <<file_path, attempt>>
    /\ UNCHANGED <<asmVars, jobVars, runVars, mixVars, cmdVars>>

\* Lines 114, 107 and 115: the sleep of `delay` ends; the loop takes its next
\* iteration or, having none, the call logs an error and returns.
DeleteWake ==
    /\ dpc = "sleep"
    /\ LET n == Len(calls)
           c == [calls[n] EXCEPT !.waits = @ + 1]
       IN  IF InRange(attempt + 1)
           THEN /\ attempt' = attempt + 1
                /\ dpc' = "unlink"
                /\ calls' = [calls EXCEPT ![n] = c]
           ELSE /\ attempt' = attempt
                /\ dpc' = "idle"
                /\ calls' = [calls EXCEPT ![n] =
                               [c EXCEPT !.after = fs,
                                         !.result = "returned",
                                         !.log = "error"]]
    /\ UNCHANGED <<fs, file_path>>
    /\ UNCHANGED <<asmVars, jobVars, runVars, mixVars, cmdVars>>

NextDelete ==
    \/ DeleteCall
    \/ DeleteAttempt
    \/ DeleteWake

SpecDelete == InitDelete /\ [][NextDelete]_vars

-----------------------------------------------------------------------------
(* One run of the synchronous entry point: src/main.py. main() executes its *)
(* statements in order; an exception of any of them reaches the handler of  *)
(* the __main__ block, which prints it and exits with status 1.             *)

Call(f) == [op |-> f, n |-> 0]

Variant(v) == [op |-> "variant", n |-> v]

\* Lines 558-567.
Setup ==
    <<Call("ensure_folder_exists"), Call("check_main_video"),
      Call("check_folders_have_content")>>

\* Lines 570-577.
AllVariants == [v \in 1..NumVariants |-> Variant(v)]

\* Lines 580-584.
Finish == <<Call("cleanup_temp_files"), Call("add_random_music_to_results")>>

\* A main() that checks the folders' content before the main video.
MainBodyFoldersFirst ==
    <<Call("ensure_folder_exists"), Call("check_folders_have_content"),
      Call("check_main_video")>> \o AllVariants \o Finish

\* A main() that starts the mixer pass before its last variant.
MainBodyMixerEarly ==
    Setup \o SubSeq(AllVariants, 1, NumVariants - 1)
          \o <<Call("add_random_music_to_results"), Variant(NumVariants),
               Call("cleanup_temp_files")>>

\* Lines 556-584: the statements of main().
MainBody == Setup \o AllVariants \o Finish

\* The statement main() is at; after the last one it returns.
Statement == IF ip \in 1..Len(MainBody) THEN MainBody[ip] ELSE Call("return")

\* `<stem>_music<ext>`, lines 533-534 of src/main.py and 55 of src/music.py.
MusicName(f) == <<f[1], f[2] + 1>>

\* A startup check that looks at the music folder only.
CheckFoldersMusicOnly(distraction_videos, music, add_music) ==
    IF add_music /\ music = {} THEN "SetupNoMusic" ELSE "none"

\* Lines 146-161, check_folders_have_content: the exception it raises.
CheckFolders(distraction_videos, music, add_music) ==
    IF distraction_videos = {} THEN "SetupNoDistraction"
    ELSE IF add_music /\ music = {} THEN "SetupNoMusic"
    ELSE "none"

InitMain ==
    /\ NoAssembly
    /\ NoJobs
    /\ NoDeleteCall
    /\ NoMixerCall
    /\ NoCommand
    /\ MAIN_VIDEO \in BOOLEAN
    /\ DISTRACTION_FOLDER \in {1..k : k \in 0..MaxClips}
    /\ MUSIC_FOLDER \in {1..k : k \in 0..MaxTracks}
    /\ ADD_MUSIC \in BOOLEAN
    /\ RESULT_FOLDER = {}
    /\ ip = 1
    /\ step = "call"
    /\ job = [v \in 1..NumVariants |-> "pending"]
    /\ listed = {}
    /\ engines = 0
    /\ mixes = 0
    /\ todo = {}
    /\ error = "none"
    /\ exit_status = "running"

\* Lines 586-591: the exception leaves main(); the handler prints it and
\* calls sys.exit(1).
Raise(kind) ==
    /\ error' = kind
    /\ exit_status' = "nonzero"
    /\ UNCHANGED ip

\* The statement returned; main() goes on with the next one.
GoOn ==
    /\ ip' = ip + 1
    /\ step' = "call"
    /\ UNCHANGED <<error, exit_status>>

\* What no statement of main() changes.
MainFrame ==
    /\ UNCHANGED <<MAIN_VIDEO, DISTRACTION_FOLDER, MUSIC_FOLDER, ADD_MUSIC>>
    /\ UNCHANGED <<asmVars, jobVars, delVars, mixVars, cmdVars>>

\* Lines 558-561 and 131-137: the three folders are created if missing.
MainEnsureFolders ==
    /\ exit_status = "running"
    /\ Statement.op = "ensure_folder_exists"
    /\ \E made_all \in May({TRUE, FALSE}, TRUE) :
         IF made_all THEN GoOn ELSE Raise("OSError") /\ UNCHANGED step
    /\ UNCHANGED <<RESULT_FOLDER, job, listed, engines, mixes, todo>>
    /\ MainFrame

\* Lines 564 and 139-144.
MainCheckMainVideo ==
    /\ exit_status = "running"
    /\ Statement.op = "check_main_video"
    /\ IF MAIN_VIDEO THEN GoOn
                     ELSE Raise("FileNotFoundError") /\ UNCHANGED step
    /\ UNCHANGED <<RESULT_FOLDER, job, listed, engines, mixes, todo>>
    /\ MainFrame

\* Lines 567 and 146-161: the distraction folder is listed, and the music
\* folder after it if music is to be added.
MainCheckFolders ==
    /\ exit_status = "running"
    /\ Statement.op = "check_folders_have_content"
    /\ LET e == CheckFolders(DISTRACTION_FOLDER, MUSIC_FOLDER, ADD_MUSIC)
       IN  /\ listed' = listed \cup {"distraction"}
                   \cup (IF ADD_MUSIC /\ e # "SetupNoDistraction"
                         THEN {"music"} ELSE {})
           /\ IF e = "none" THEN GoOn ELSE Raise(e) /\ UNCHANGED step
    /\ UNCHANGED <<RESULT_FOLDER, job, engines, mixes, todo>>
    /\ MainFrame

\* The exception leaves variant v and main().
VariantRaises(v, kind) ==
    /\ job' = [job EXCEPT ![v] = "failed"]
    /\ Raise(kind)
    /\ UNCHANGED step

\* Line 167 (and its like in the other variants): the main video is probed.
MainVariantProbe ==
    /\ exit_status = "running"
    /\ Statement.op = "variant"
    /\ step = "call"
    /\ LET v == Statement.n
       IN  \E probed \in May({TRUE, FALSE}, TRUE) :
             IF probed
             THEN /\ job' = [job EXCEPT ![v] = "running"]
                  /\ step' = "assemble1"
                  /\ UNCHANGED <<ip, error, exit_status>>
             ELSE VariantRaises(v, "ProbeFailure")
    /\ UNCHANGED <<RESULT_FOLDER, listed, engines, mixes, todo>>
    /\ MainFrame

\* Lines 169-170 with 57-129: one create_distraction_video call. It lists
\* the folder and raises if it holds no clip; it raises if its selection is
\* empty or a probe fails; it runs the concatenation engine.
MainVariantAssemble ==
    /\ exit_status = "running"
    /\ Statement.op = "variant"
    /\ step \in {"assemble1", "assemble2"}
    /\ LET v == Statement.n
       IN  /\ listed' = listed \cup {"distraction"}
           /\ IF DISTRACTION_FOLDER = {}
              THEN /\ VariantRaises(v, "NoCandidates")
                   /\ UNCHANGED engines
              ELSE \E r \in May({"ok", "InsufficientClips", "ProbeFailure",
                                 "CalledProcessError"}, "ok") :
                     CASE r = "ok" ->
                            /\ engines' = engines + 1
                            /\ step' = IF step = "assemble1"
                                          /\ v \in TwoArtifacts
                                       THEN "assemble2" ELSE "engine"
                            /\ UNCHANGED <<ip, job, error, exit_status>>
                       [] r = "CalledProcessError" ->
                            /\ engines' = engines + 1
                            /\ VariantRaises(v, r)
                       [] OTHER ->
                            /\ UNCHANGED engines
                            /\ VariantRaises(v, r)
    /\ UNCHANGED <<RESULT_FOLDER, mixes, todo>>
    /\ MainFrame

\* Line 198: subprocess.run(command, check=True) on the composition command.
MainVariantEngine ==
    /\ exit_status = "running"
    /\ Statement.op = "variant"
    /\ step = "engine"
    /\ engines' = engines + 1
    /\ LET v == Statement.n
       IN  \E rc \in May({0, 1}, 0) :
             IF rc = 0
             THEN /\ RESULT_FOLDER' = RESULT_FOLDER \cup {<<v, 0>>}
                  /\ step' = "remove"
                  /\ UNCHANGED <<ip, job, error, exit_status>>
             ELSE /\ VariantRaises(v, "CalledProcessError")
                  /\ UNCHANGED RESULT_FOLDER
    /\ UNCHANGED <<listed, mixes, todo>>
    /\ MainFrame

\* Lines 200-201: os.remove on the artifacts; the variant returns.
MainVariantRemove ==
    /\ exit_status = "running"
    /\ Statement.op = "variant"
    /\ step = "remove"
    /\ LET v == Statement.n
       IN  \E removed \in May({TRUE, FALSE}, TRUE) :
             IF removed
             THEN /\ job' = [job EXCEPT ![v] = "finished"]
                  /\ GoOn
             ELSE VariantRaises(v, "OSError")
    /\ UNCHANGED <<RESULT_FOLDER, listed, engines, mixes, todo>>
    /\ MainFrame

\* Lines 580 and 504-511: leftover temp_distraction_video_*.mp4 are removed.
MainCleanup ==
    /\ exit_status = "running"
    /\ Statement.op = "cleanup_temp_files"
    /\ \E removed \in May({TRUE, FALSE}, TRUE) :
         IF removed THEN GoOn ELSE Raise("OSError") /\ UNCHANGED step
    /\ UNCHANGED <<RESULT_FOLDER, job, listed, engines, mixes, todo>>
    /\ MainFrame

\* Lines 583-584 and 513-527: with ADD_MUSIC the mixer lists the result and
\* the music folder and returns if either holds nothing.
MainMixer ==
    /\ exit_status = "running"
    /\ Statement.op = "add_random_music_to_results"
    /\ step = "call"
    /\ IF ~ADD_MUSIC
       THEN /\ GoOn
            /\ UNCHANGED <<listed, todo>>
       ELSE /\ listed' = listed \cup {"result", "music"}
            /\ IF MUSIC_FOLDER = {} \/ RESULT_FOLDER = {}
               THEN /\ GoOn
                    /\ UNCHANGED todo
               ELSE /\ step' = "mix"
                    /\ todo' = RESULT_FOLDER
                    /\ UNCHANGED <<ip, error, exit_status>>
    /\ UNCHANGED <<RESULT_FOLDER, job, engines, mixes>>
    /\ MainFrame

\* Lines 529-554: one iteration of the mixer loop, an engine run with
\* check=True; after the last one the mixer returns.
MainMix ==
    /\ exit_status = "running"
    /\ Statement.op = "add_random_music_to_results"
    /\ step = "mix"
    /\ IF todo = {}
       THEN /\ GoOn
            /\ UNCHANGED <<RESULT_FOLDER, mixes, todo>>
       ELSE \E f \in todo :
              /\ mixes' = mixes + 1
              /\ \E rc \in May({0, 1}, 0) :
                   IF rc = 0
                   THEN /\ RESULT_FOLDER' = RESULT_FOLDER \cup {MusicName(f)}
                        /\ todo' = todo \ {f}
                        /\ UNCHANGED <<ip, step, error, exit_status>>
                   ELSE /\ Raise("CalledProcessError")
                        /\ UNCHANGED <<RESULT_FOLDER, step, todo>>
    /\ UNCHANGED <<job, listed, engines>>
    /\ MainFrame

\* main() returned: the interpreter exits with status 0.
MainReturn ==
    /\ exit_status = "running"
    /\ Statement.op = "return"
    /\ exit_status' = "zero"
    /\ UNCHANGED <<RESULT_FOLDER, ip, step, job, listed, engines, mixes,
                   todo, error>>
    /\ MainFrame

NextMain ==
    \/ MainEnsureFolders
    \/ MainCheckMainVideo
    \/ MainCheckFolders
    \/ MainVariantProbe
    \/ MainVariantAssemble
    \/ MainVariantEngine
    \/ MainVariantRemove
    \/ MainCleanup
    \/ MainMixer
    \/ MainMix
    \/ MainReturn

SpecMain == InitMain /\ [][NextMain]_vars

-----------------------------------------------------------------------------
(* add_random_music_to_results on its own: src/music.py, called on a result *)
(* folder that may hold variant outputs and the `_music` files of an        *)
(* earlier pass.                                                            *)

\* The *.mp4 files that may lie in result_folder.
Names == (1..MaxVideos) \X {0, 1}

\* A mixer that returns early for an empty video list only.
NoVideosOnly(video_list, music_list) == video_list = {}

\* Lines 18-24: the two early returns.
NothingToMix(video_list, music_list) == music_list = {} \/ video_list = {}

InitMix ==
    /\ NoAssembly
    /\ NoJobs
    /\ NoDeleteCall
    /\ NoRun
    /\ NoCommand
    /\ result_folder \in SUBSET Names
    /\ overwrite_files \in BOOLEAN
    /\ tasks = <<>>
    /\ written = {}

\* What no step of the mixer call changes.
MixFrame ==
    /\ UNCHANGED <<faults, pc, failed, outcome, exc, made, disk, attempted,
                   tries, mix>>
    /\ UNCHANGED overwrite_files
    /\ UNCHANGED <<asmVars, delVars, runVars, cmdVars>>

\* Lines 13-26 and 53-57: the two listings, the early returns, one task per
\* video of the listing.
MixerCall ==
    /\ mixer = "off"
    /\ \E tracks \in {1..k : k \in 0..MaxTracks} :
         /\ music_files' = tracks
         /\ IF NothingToMix(result_folder, tracks)
            THEN /\ mixer' = "returned"
                 /\ UNCHANGED tasks
            ELSE /\ mixer' = "gather"
                 /\ tasks' = [f \in result_folder |-> "wait"]
    /\ UNCHANGED <<result_folder, written, semaphore>>
    /\ MixFrame

\* Lines 29-44 of add_music_to_video: take a permit, spawn the engine. A
\* spawn error leaves the `async with` block and ends the task.
TaskStart(f) ==
    /\ tasks[f] = "wait"
    /\ semaphore > 0
    /\ \E spawned \in May({TRUE, FALSE}, TRUE) :
         IF spawned
         THEN /\ semaphore' = semaphore - 1
              /\ tasks' = [tasks EXCEPT ![f] = "mixing"]
         ELSE /\ semaphore' = ReleaseOnExit(semaphore - 1, "spawn")
              /\ tasks' = [tasks EXCEPT ![f] = "raised"]
    /\ UNCHANGED <<result_folder, written, music_files, mixer>>
    /\ MixFrame

\* Lines 36-51: the engine, run with -y or -n, exits. With -n it does not
\* touch an output path that exists and exits non-zero; an engine that fails
\* may have opened its output before. The permit goes back.
TaskExit(f) ==
    /\ tasks[f] = "mixing"
    /\ LET out == MusicName(f)
           may_write == overwrite_files \/ out \notin result_folder
       IN  \E how \in IF may_write THEN May({"ok", "nonzero", "exception"}, "ok")
                                   ELSE {"nonzero", "exception"} :
             /\ semaphore' = ReleaseOnExit(semaphore, how)
             /\ tasks' = [tasks EXCEPT ![f] =
                            CASE how = "ok" -> "mixed"
                              [] how = "nonzero" -> "failed"
                              [] how = "exception" -> "raised"]
             /\ \E opened \in IF how = "ok" THEN {TRUE}
                              ELSE IF may_write THEN {TRUE, FALSE}
                              ELSE {FALSE} :
                  IF opened
                  THEN /\ result_folder' = result_folder \cup {out}
                       /\ written' = written \cup {out}
                  ELSE UNCHANGED <<result_folder, written>>
    /\ UNCHANGED <<music_files, mixer>>
    /\ MixFrame

\* Line 59: asyncio.gather(*tasks) returns when every task has ended, and
\* raises as soon as one task has raised.
MixerGather ==
    /\ mixer = "gather"
    /\ \/ /\ \E f \in DOMAIN tasks : tasks[f] = "raised"
          /\ mixer' = "raised"
       \/ /\ \A f \in DOMAIN tasks : tasks[f] \in {"mixed", "failed"}
          /\ mixer' = "returned"
    /\ UNCHANGED <<result_folder, written, tasks, music_files, semaphore>>
    /\ MixFrame

NextMix ==
    \/ MixerCall
    \/ \E f \in DOMAIN tasks : TaskStart(f)
    \/ \E f \in DOMAIN tasks : TaskExit(f)
    \/ MixerGather

SpecMix == InitMix /\ [][NextMix]_vars

-----------------------------------------------------------------------------
(* The engine command of a variant and its run: src/variants.py lines      *)
(* 22-97 and the `command` list of each variantN. A string is a sequence   *)
(* of characters, a character a letter with its case; the argument list is *)
(* a sequence of arguments.                                                *)

Letters == {"q", "s", "v"}

Chars == [c : Letters, upper : BOOLEAN]

\* A string literal of the source, written in lower case.
Literal(letters) == [i \in DOMAIN letters |-> [c |-> letters[i], upper |-> FALSE]]

\* The mode strings a Variants object may be given: the default 'none' and
\* every string of at most MaxModeLen characters.
ModeStrings ==
    {Literal(<<"n", "o", "n", "e">>)}
        \cup UNION {[1..n -> Chars] : n \in 0..MaxModeLen}

\* The main video paths: the default, and files named as engine arguments are.
MainVideoPaths == {"main_video.mp4", "fast", "5M", "libx264", "h264_qsv"}

\* A str.lower() that changes nothing.
SameCase(str) == str

\* str.lower(), line 48.
Lower(str) == [i \in DOMAIN str |-> [c |-> str[i].c, upper |-> FALSE]]

\* Lines 51-68: get_hwaccel_options on self.hwaccel.
get_hwaccel_options(mode) ==
    IF mode = Literal(<<"q", "s", "v">>)
    THEN [codec |-> "h264_qsv", preset |-> "fast", bitrate |-> "5M"]
    ELSE [codec |-> "libx264", preset |-> "fast", bitrate |-> "5M"]

\* Lines 143, 206, 269, 321, 388, 452, 516, 569: result_folder / 'variantN.mp4'.
output_video(v) ==
    <<"results/variant1.mp4", "results/variant2.mp4", "results/variant3.mp4",
      "results/variant4.mp4", "results/variant5.mp4", "results/variant6.mp4",
      "results/variant7.mp4", "results/variant8.mp4">>[v]

\* The filter graph of variant v, as one argument.
filter_complex(v) ==
    <<"filter_complex1", "filter_complex2", "filter_complex3",
      "filter_complex4", "filter_complex5", "filter_complex6",
      "filter_complex7", "filter_complex8">>[v]

\* The artifacts given as inputs after the main video: two for variant1,
\* variant2, variant5 and variant6, one for the others
\* (src/distraction.py line 49 names them).
DistractionInputs(v) ==
    IF v \in TwoArtifacts
    THEN <<"-i", "temp_distraction_video_1.mp4",
           "-i", "temp_distraction_video_2.mp4">>
    ELSE <<"-i", "temp_distraction_video_1.mp4">>

\* Lines 154-170 and the same list of the other variants.
Command(v, hw_options) ==
    <<"ffmpeg", "-loglevel", "error", "-i", main_video>>
        \o DistractionInputs(v)
        \o <<"-filter_complex", filter_complex(v),
             "-map", "[out]",
             "-map", "0:a?",
             "-c:v", hw_options.codec,
             "-preset", hw_options.preset,
             "-b:v", hw_options.bitrate,
             "-pix_fmt", "nv12",
             "-shortest",
             IF overwrite THEN "-y" ELSE "-n",
             output_video(v)>>

\* A return-code test that lets every exit pass.
AfterCommunicateAnyCode(rc) == "returned"

\* Lines 93-97: a non-zero return code raises, zero returns.
AfterCommunicate(rc) == IF rc # "0" THEN "raised" ELSE "returned"

InitCmd ==
    /\ NoAssembly
    /\ NoJobs
    /\ NoDeleteCall
    /\ NoRun
    /\ NoMixerCall
    /\ main_video \in MainVideoPaths
    /\ hwaccel \in ModeStrings
    /\ self_hwaccel = <<>>
    /\ overwrite \in BOOLEAN
    /\ variant = 0
    /\ command = <<>>
    /\ rpc = "new"
    /\ spawns = 0
    /\ returncode = "None"
    /\ process = "none"

CmdFrame ==
    /\ UNCHANGED <<main_video, hwaccel, overwrite>>
    /\ UNCHANGED <<faults, pc, failed, outcome, exc, made, disk, attempted,
                   tries, music_files, mixer, mix>>
    /\ UNCHANGED <<asmVars, delVars, runVars, mixVars>>

\* Lines 43-49: Variants.__init__.
Construct ==
    /\ rpc = "new"
    /\ self_hwaccel' = Lower(hwaccel)
    /\ rpc' = "constructed"
    /\ UNCHANGED <<variant, command, spawns, returncode, process, semaphore>>
    /\ CmdFrame

\* Lines 152-170 of variant1 and the same lines of the other variants.
BuildCommand(v) ==
    /\ rpc = "constructed"
    /\ variant' = v
    /\ command' = Command(v, get_hwaccel_options(self_hwaccel))
    /\ rpc' = "built"
    /\ UNCHANGED <<self_hwaccel, spawns, returncode, process, semaphore>>
    /\ CmdFrame

\* Lines 77-83 of run_ffmpeg_command: take a permit, call
\* create_subprocess_exec; if it raises, the `async with` block is left.
RunSpawn ==
    /\ rpc = "built"
    /\ semaphore > 0
    /\ spawns' = spawns + 1
    /\ \E spawned \in BOOLEAN :
         IF spawned
         THEN /\ semaphore' = semaphore - 1
              /\ process' = "running"
              /\ rpc' = "communicate"
         ELSE /\ semaphore' = ReleaseOnExit(semaphore - 1, "spawn")
              /\ process' = process
              /\ rpc' = "raised"
    /\ UNCHANGED <<self_hwaccel, variant, command, returncode>>
    /\ CmdFrame

\* Lines 85-97: communicate() returns after the engine has exited, with 0
\* or not, or it raises an Exception, and the handler kills the running
\* engine, waits for it and re-raises; or the task is cancelled while it
\* awaits communicate(): asyncio.CancelledError is a BaseException, which
\* `except Exception` at line 87 does not catch, so it leaves the function
\* with the engine running. The permit goes back on every path.
RunExit ==
    /\ rpc = "communicate"
    /\ \E how \in {"ok", "nonzero", "exception", "cancelled"} :
         /\ semaphore' = ReleaseOnExit(semaphore, how)
         /\ CASE how = "ok" ->
                   /\ returncode' = "0"
                   /\ process' = "exited"
                   /\ rpc' = AfterCommunicate("0")
              [] how = "nonzero" ->
                   /\ returncode' = "1"
                   /\ process' = "exited"
                   /\ rpc' = AfterCommunicate("1")
              [] how = "exception" ->
                   /\ returncode' = "-9"
                   /\ process' = "exited"
                   /\ rpc' = "raised"
              [] how = "cancelled" ->
                   /\ returncode' = returncode
                   /\ process' = process
                   /\ rpc' = "raised"
    /\ UNCHANGED <<self_hwaccel, variant, command, spawns>>
    /\ CmdFrame

NextCmd ==
    \/ Construct
    \/ \E v \in 1..NumVariants : BuildCommand(v)
    \/ RunSpawn
    \/ RunExit

SpecCmd == InitCmd /\ [][NextCmd]_vars

-----------------------------------------------------------------------------
(* The claims about create_distraction_video, under SpecAsm. *)

NoAdjacentRepeat(s) == \A n \in 1..(Len(s) - 1) : s[n] # s[n + 1]

\* The clips of the folder that call i may use: the pool minus its exclude list.
Usable(i) == videos \ Range(ret[i].excl)

\* C3: for every call that returned an artifact, the probed durations of the
\* clips written to its manifest sum to at least the requested target duration.
C3_DurationReached ==
    \A i \in 1..Len(ret) :
        ret[i].status = "ok" => SumDur(ret[i].manifest) >= duration

\* C4: when both assembly calls of a two-artifact variant succeed, every clip
\* the first call concatenated is in the second call's exclusion list, and no
\* clip is in both manifests.
C4_ArtifactsShareNoClip ==
    (Len(ret) = 2 /\ ret[1].status = "ok" /\ ret[2].status = "ok")
        => /\ Range(ret[1].manifest) \subseteq Range(ret[2].excl)
           /\ Range(ret[1].manifest) \cap Range(ret[2].manifest) = {}

\* C5: no two adjacent entries of the selection sequence are the same clip,
\* in the manifest of every call that returned and in the sequence being
\* built, also across a reset of the used list.
C5_NoAdjacentRepeat ==
    /\ NoAdjacentRepeat(file_list)
    /\ \A i \in 1..Len(ret) :
           ret[i].status = "ok" => NoAdjacentRepeat(ret[i].manifest)

\* A call returned a manifest longer than its used list: the used list was
\* reset on the way and the selection went on.
C5_Witness ==
    \E i \in 1..Len(ret) :
        /\ ret[i].status = "ok"
        /\ ret[i].used # <<>>
        /\ Len(ret[i].manifest) > Len(ret[i].used)

\* C6: a call whose usable pool holds exactly one clip, shorter than the
\* target duration, ends with an error and not with an artifact.
C6_SingleShortClipFails ==
    \A i \in 1..Len(ret) :
        (/\ Cardinality(Usable(i)) = 1
         /\ \A v \in Usable(i) : probe[v].ok /\ probe[v].d < duration)
            => ret[i].status = "error"

\* C7: the second call got the first call's returned used list as its
\* exclude list; if it returned, its used list shares no clip with the
\* first one's; if every clip of the pool is excluded, it ended with an
\* error and wrote neither a manifest nor an artifact.
C7_SecondCallDisjoint ==
    Len(ret) = 2 =>
        /\ ret[2].excl = ret[1].used
        /\ ret[2].status = "ok"
               => Range(ret[2].used) \cap Range(ret[1].used) = {}
        /\ videos \subseteq Range(ret[2].excl)
               => /\ ret[2].status = "error"
                  /\ <<2, "list">> \notin tempfiles
                  /\ <<2, "video">> \notin tempfiles

\* The second call returned after picking clips around a non-empty exclude
\* list.
C7_Witness ==
    /\ Len(ret) = 2
    /\ ret[2].status = "ok"
    /\ ret[1].used # <<>>
    /\ ret[2].used # <<>>

\* The second call found every clip of the pool excluded.
C7_WitnessAllExcluded ==
    /\ Len(ret) = 2
    /\ videos \subseteq Range(ret[2].excl)
    /\ ret[2].kind = "InsufficientClips"

-----------------------------------------------------------------------------
(* The claims about the variant coroutines and the mixer pass. *)

\* The engine (ffmpeg) processes now running: the Assembler's concatenations,
\* the Job Runner's compositions, the Mixer's remuxes.
RunningEngines ==
    Cardinality({j \in Jobs : pc[j] \in {"concat1", "concat2", "engine"}})
        + Cardinality({v \in Jobs : mix[v] = "mixing"})

\* The engine invocations made inside an `async with semaphore` block.
GatedEngines ==
    Cardinality({j \in Jobs : pc[j] = "engine"})
        + Cardinality({v \in Jobs : mix[v] = "mixing"})

\* C1: the number of engine processes running at once never exceeds the
\* permit capacity, concatenations included (a property of SpecStress).
C1_EnginesWithinCapacity == RunningEngines <= Capacity

\* C2: when a variant coroutine has ended, a deletion was attempted for every
\* distraction artifact its assembly calls created.
C2_ArtifactsDeletedAtEnd ==
    \A j \in Jobs :
        pc[j] = "done"
            => (made[j] \cap {"video1", "video2"}) \subseteq attempted[j]

\* What the model holds of variant k alone.
JobState(k) ==
    <<pc[k], failed[k], outcome[k], exc[k], made[k], disk[k], attempted[k],
      tries[k]>>

\* No assembly or engine exception propagates out of a variant coroutine: a
\* coroutine whose assembly or engine run failed returns normally, unless one
\* of its delete calls raised afterwards.
FailuresCaught ==
    \A j \in Jobs :
        /\ exc[j] \notin {"AssemblyFailure", "SpawnFailure", "EngineFailure"}
        /\ (pc[j] = "done" /\ failed[j] \in {"assembly", "engine"})
               => (outcome[j] = "returned" \/ exc[j] = "OSError")

\* The step in which variant j's assembly or engine run fails changes nothing
\* of any other variant.
FailureIsLocal ==
    \A j \in Jobs :
        (failed[j] = "none" /\ failed'[j] \in {"assembly", "engine"})
            => \A k \in Jobs \ {j} : JobState(k)' = JobState(k)

C9_ProbeFailureCaught ==
    \A j \in Jobs :
        (pc[j] = "done" /\ failed[j] = "probe")
            => /\ outcome[j] = "returned"
               /\ made[j] = {}
               /\ disk[j] = {}

\* C10: every permit taken is given back on every exit path: the free permits
\* and the gated engine invocations in progress always add up to the
\* capacity, so with none in progress all permits are free.
C10_PermitsReleased ==
    /\ semaphore + GatedEngines = Capacity
    /\ GatedEngines = 0 => semaphore = Capacity

\* A composition run and a mix job have failed, no gated invocation is in
\* progress.
C10_Witness ==
    /\ \E j \in Jobs : pc[j] = "done" /\ failed[j] = "engine"
    /\ \E v \in Jobs : mix[v] \in {"failed", "raised"}
    /\ GatedEngines = 0

\* C11: no delete_file_with_retry call raises, whatever error the unlink
\* meets: a variant coroutine whose pipeline did not fail returns normally,
\* and none ends with the exception of a delete call.
C11_DeleteNeverRaises ==
    \A j \in Jobs :
        /\ exc[j] # "OSError"
        /\ (pc[j] = "done" /\ failed[j] = "none") => outcome[j] = "returned"

-----------------------------------------------------------------------------
(* The claims about delete_file_with_retry on its own, under SpecDelete. *)

\* The call i has ended.
Ended(i) == calls[i].result # "running"

\* C12: a call on a path that does not exist returns normally after one
\* attempt and no wait, and leaves the file system as it was; a call that
\* follows a call on the same path which left the path missing changes
\* nothing: two calls in a row end in the state one call ends in.
C12_MissingPathIsNoOp ==
    /\ \A i \in 1..Len(calls) :
           (Ended(i) /\ calls[i].path \notin calls[i].before)
               => /\ calls[i].result = "returned"
                  /\ calls[i].log = "info"
                  /\ calls[i].unlinks = 1
                  /\ calls[i].waits = 0
                  /\ calls[i].after = calls[i].before
    /\ \A i \in 1..(Len(calls) - 1) :
           (/\ Ended(i + 1)
            /\ calls[i + 1].path = calls[i].path
            /\ calls[i].path \notin calls[i].after)
               => /\ calls[i + 1].result = "returned"
                  /\ calls[i + 1].after = calls[i].after

\* A call deleted a file and the next call, on the same path, has ended.
C12_Witness ==
    \E i \in 1..(Len(calls) - 1) :
        /\ calls[i].path \in calls[i].before
        /\ calls[i].path \notin calls[i].after
        /\ calls[i + 1].path = calls[i].path
        /\ Ended(i + 1)

\* A call on a path that never existed has ended.
C12_WitnessNeverCreated ==
    \E i \in 1..Len(calls) :
        /\ Ended(i)
        /\ \A k \in 1..i : calls[i].path \notin calls[k].before

\* What C13 says of every call, running or ended.
BoundedRetries ==
    \A i \in 1..Len(calls) :
        LET c == calls[i]
        IN  /\ c.unlinks <= Retries
            \* an attempt after the first follows a failed attempt and a wait
            /\ c.unlinks <= c.waits + 1
            /\ c.waits <= c.unlinks
            \* a success is the last attempt and ends the call
            /\ c.log = "info"
                   => (c.result = "returned" /\ c.unlinks = c.waits + 1)
            \* all attempts failed on a transient error
            /\ (Ended(i) /\ c.waits = Retries)
                   => /\ c.result = "returned"
                      /\ c.log = "error"
                      /\ c.unlinks = Retries
                      /\ c.path \in c.after
                      /\ c.after = c.before
            /\ c.log = "error" => (c.waits = Retries /\ c.unlinks = Retries)

\* A call that has ended makes no further attempt and no further wait.
NoAttemptAfterEnd ==
    \A i \in 1..Len(calls) : Ended(i) => calls'[i] = calls[i]

\* An attempt after the first is made when the attempt before it met a
\* PermissionError and the wait that followed it has ended.
RetryFollowsWait ==
    \A i \in 1..Len(calls) :
        (calls[i].unlinks > 0 /\ calls'[i].unlinks > calls[i].unlinks)
            => /\ calls[i].log = "warning"
               /\ calls[i].waits = calls[i].unlinks
               /\ calls'[i].unlinks = calls[i].unlinks + 1

-----------------------------------------------------------------------------
(* The claims about a run started by main(), under SpecMain. *)

\* The mixer pass has begun: it has listed the result folder.
MixerBegun == "result" \in listed \/ step = "mix" \/ mixes > 0

\* Variant v has ended, by returning or by raising.
Terminal(v) == job[v] \in {"finished", "failed"}

\* C14: no engine run of the mixer starts, and the mixer pass does not begin,
\* while one of the eight variants has not ended.
C14_MixerAfterVariants ==
    MixerBegun => \A v \in 1..NumVariants : Terminal(v)

\* The mixer has made an engine run, after all eight variants.
C14_Witness ==
    /\ mixes > 0
    /\ \A v \in 1..NumVariants : job[v] = "finished"

\* The exceptions of the external calls of the variants and the mixer.
CallFailures ==
    {"ProbeFailure", "InsufficientClips", "CalledProcessError", "OSError"}

\* C15: when the engine run of one variant has failed, the run does not end
\* with a failure status, and when it has ended every other variant has been
\* executed and, with ADD_MUSIC, the mixer pass has begun.
C15_RunSurvivesEngineFailure ==
    \A v \in 1..NumVariants :
        (job[v] = "failed" /\ step = "engine")
            => /\ exit_status # "nonzero"
               /\ exit_status = "zero"
                      => /\ \A w \in 1..NumVariants : Terminal(w)
                         /\ ADD_MUSIC => MixerBegun

\* C16: in a run whose main video is missing no folder is listed for its
\* content, no variant starts, no engine runs; the run does not get past
\* check_main_video and ends with a non-zero status.
C16_MissingMainVideoAborts ==
    ~MAIN_VIDEO
        => /\ listed = {}
           /\ \A v \in 1..NumVariants : job[v] = "pending"
           /\ engines = 0
           /\ mixes = 0
           /\ RESULT_FOLDER = {}
           /\ ip <= 2
           /\ exit_status # "zero"
           /\ error \in {"none", "OSError", "FileNotFoundError"}
           /\ error # "none" => exit_status = "nonzero"

\* The run ended on the missing main video.
C16_Witness ==
    /\ ~MAIN_VIDEO
    /\ error = "FileNotFoundError"
    /\ exit_status = "nonzero"

\* C17: a run with ADD_MUSIC and a music folder without tracks, in which no
\* external call failed, ends with status zero after all variants ran, the
\* mixer having made no engine run and no `_music` file.
C17_EmptyMusicFolderSucceeds ==
    (/\ ADD_MUSIC
     /\ MUSIC_FOLDER = {}
     /\ MAIN_VIDEO
     /\ DISTRACTION_FOLDER # {}
     /\ exit_status # "running"
     /\ error \notin CallFailures)
        => /\ exit_status = "zero"
           /\ \A v \in 1..NumVariants : job[v] = "finished"
           /\ mixes = 0
           /\ \A f \in RESULT_FOLDER : f[2] = 0

\* C18: in a run whose distraction folder holds no clip no variant starts and
\* no engine runs; the run does not get past check_folders_have_content and
\* ends with a non-zero status; and in no run does create_distraction_video
\* find the folder without clips.
C18_EmptyDistractionFolderAborts ==
    /\ DISTRACTION_FOLDER = {}
           => /\ \A v \in 1..NumVariants : job[v] = "pending"
              /\ engines = 0
              /\ mixes = 0
              /\ RESULT_FOLDER = {}
              /\ ip <= 3
              /\ exit_status # "zero"
              /\ error \in {"none", "OSError", "FileNotFoundError",
                            "SetupNoDistraction"}
              /\ error # "none" => exit_status = "nonzero"
    /\ error # "NoCandidates"

\* The run ended on the startup check of the distraction folder.
C18_Witness ==
    /\ DISTRACTION_FOLDER = {}
    /\ MAIN_VIDEO
    /\ error = "SetupNoDistraction"
    /\ exit_status = "nonzero"
    /\ "distraction" \in listed

-----------------------------------------------------------------------------
(* The claims about the mixer call on its own, under SpecMix. *)

\* The mixer call returned early: it made no task, took no permit and wrote
\* no file.
ReturnedEarly ==
    /\ mixer = "returned"
    /\ DOMAIN tasks = {}
    /\ semaphore = Capacity
    /\ written = {}

\* C19: a mixer call that finds no result video or no audio track returns
\* normally in that step, which changes no file, takes no permit and makes no
\* task; no engine run, permit or file follows it.
C19_NothingToMixReturns ==
    [][/\ (mixer = "off" /\ mixer' # "off"
               /\ (result_folder = {} \/ music_files' = {}))
           => /\ ReturnedEarly'
              /\ UNCHANGED <<result_folder, written, semaphore, tasks>>
       /\ (mixer # "off" /\ (music_files = {} \/ DOMAIN tasks = {}))
           => ReturnedEarly'
      ]_vars

\* The call returned on an empty track list, result videos being there.
C19_Witness ==
    /\ mixer = "returned"
    /\ music_files = {}
    /\ result_folder # {}

\* The call returned on an empty result folder, tracks being there.
C19_WitnessNoVideos ==
    /\ mixer = "returned"
    /\ music_files # {}
    /\ result_folder = {}

\* C20: the mixer has one task per video that was in the result folder when
\* it started; the output path of each differs from its input path; and the
\* mixer deletes none of these videos and writes to none of them, only to
\* the `_music` paths of its tasks.
C20_MixLeavesInputs ==
    mixer \in {"gather", "returned", "raised"}
        => /\ \A f \in DOMAIN tasks : MusicName(f) # f
           /\ DOMAIN tasks \subseteq result_folder
           /\ written \subseteq {MusicName(f) : f \in DOMAIN tasks}
           /\ written \cap DOMAIN tasks = {}

\* C21: the failure of one mix task, by a non-zero engine exit or by a spawn
\* error, stays in that task: no exception leaves the task, and the mixer
\* call does not raise.
C21_MixFailureIsCaught ==
    /\ mixer # "raised"
    /\ \A f \in DOMAIN tasks : tasks[f] # "raised"

-----------------------------------------------------------------------------
(* Further claims about create_distraction_video, under SpecAsm. *)

\* C23: when a call has ended, its manifest file is gone, however the
\* concatenation ended; and a call that failed has left no temporary file.
C23_ManifestRemoved ==
    \A i \in 1..Len(ret) :
        /\ <<i, "list">> \notin tempfiles
        /\ ret[i].status = "error" => <<i, "video">> \notin tempfiles

\* C24: the used list a successful call returns is the sequence of clips it
\* wrote to its manifest, also when the used list was reset during the call.
C24_UsedListIsManifest ==
    \A i \in 1..Len(ret) :
        ret[i].status = "ok" => ret[i].used = ret[i].manifest

\* The loop is about to run an iteration that finds no candidate, neither
\* before the reset (clips not used, not excluded) nor after it (clips other
\* than the previous pick, not excluded).
Exhausted ==
    /\ apc = "loop"
    /\ total_duration < duration
    /\ Len(file_list) < MaxPicks
    /\ \A v \in videos : v \in Range(used_videos) \/ v \in Range(exclude_list)
    /\ \A v \in videos :
           \/ (used_videos # <<>> /\ v = Last(used_videos))
           \/ v \in Range(exclude_list)

\* The loop has stopped on exhaustion, below the target.
StoppedShort == apc = "after" /\ total_duration < duration

\* C25: an iteration that finds the candidate set empty before and after the
\* reset stops the loop and adds nothing; the call then writes its manifest
\* and goes on if at least one clip was added, and raises InsufficientClips,
\* writing nothing, if and only if none was.
C25_ExhaustionStopsLoop ==
    [][/\ Exhausted
           => /\ StoppedShort'
              /\ file_list' = file_list
              /\ total_duration' = total_duration
              /\ ret' = ret
       /\ (StoppedShort /\ apc' # "after")
           => IF file_list = <<>>
              THEN /\ Len(ret') = Len(ret) + 1
                   /\ Last(ret').kind = "InsufficientClips"
                   /\ tempfiles' = tempfiles
              ELSE /\ <<call, "list">> \in tempfiles'
                   /\ Len(ret') > Len(ret)
                          => Last(ret').kind = "SpawnFailure"
      ]_vars

\* A call returned an artifact shorter than the target.
C25_Witness ==
    \E i \in 1..Len(ret) :
        /\ ret[i].status = "ok"
        /\ ret[i].manifest # <<>>
        /\ ret[i].total < duration

\* A call with clips in the folder and a positive target added no clip.
C25_WitnessNoClip ==
    \E i \in 1..Len(ret) :
        /\ ret[i].kind = "InsufficientClips"
        /\ videos # {}
        /\ duration > 0

\* The selections made so far have the form X, Y, X with X different from Y.
PairPrefix(list) ==
    /\ Len(list) <= 3
    /\ \A i \in 1..(Len(list) - 1) : list[i] # list[i + 1]
    /\ Len(list) = 3 => list[3] = list[1]

\* C26: on two clips of ClipLen seconds, an empty exclude list and a target
\* between two and three clips (25 for clips of 10), the loop of the first
\* call selects X, Y, X with X different from Y and nothing else, accumulates
\* one ClipLen per selection, and leaves only with three selections and
\* three times ClipLen (30).
C26_TwoClipsSelectXYX ==
    /\ call = 1 =>
           /\ PairPrefix(file_list)
           /\ total_duration = ClipLen * Len(file_list)
           /\ Len(file_list) = 3 => Range(used_videos) = {file_list[3]}
           /\ apc \notin {"enter", "loop"} => Len(file_list) = 3
    /\ \A i \in 1..Len(ret) :
           ret[i].excl = <<>> =>
               /\ ret[i].status = "ok" => Len(ret[i].manifest) = 3
               /\ ret[i].kind \notin {"InsufficientClips", "ProbeFailure",
                                      "NoCandidates"}

\* The first call, asked for two and a half clips, returned three.
C26_Witness ==
    /\ duration = 2 * ClipLen + ClipLen \div 2
    /\ Len(ret) >= 1
    /\ ret[1].status = "ok"
    /\ ret[1].excl = <<>>
    /\ ret[1].total = 3 * ClipLen
    /\ Len(ret[1].manifest) = 3
    /\ ret[1].manifest[1] # ret[1].manifest[2]
    /\ ret[1].manifest[3] = ret[1].manifest[1]

\* C27: the selection loop makes progress between resets: while it runs, it
\* has either selected no more clips than the folder holds (no reset has
\* been needed yet) or accumulated a positive duration, so it cannot come
\* back to the loop state of an earlier iteration and run for ever.
C27_ResetsMakeProgress ==
    (apc = "loop" /\ total_duration < duration)
        => (Len(file_list) <= Cardinality(videos) \/ total_duration > 0)

-----------------------------------------------------------------------------
(* Claims about the engine command and run_ffmpeg_command, under SpecCmd. *)

\* The mode string given to the constructor reads qsv, in any letter case.
IsQsv(str) ==
    /\ Len(str) = 3
    /\ str[1].c = "q"
    /\ str[2].c = "s"
    /\ str[3].c = "v"

\* The option/value pairs the profile of the given mode puts in a command.
ExpectedPairs ==
    {<<"-c:v", IF IsQsv(hwaccel) THEN "h264_qsv" ELSE "libx264">>,
     <<"-preset", "fast">>,
     <<"-b:v", "5M">>}

Occurrences(arg) == {i \in DOMAIN command : command[i] = arg}

C22_WitnessOtherMode ==
    /\ rpc = "built"
    /\ Len(hwaccel) = 3
    /\ ~IsQsv(hwaccel)
    /\ \E i \in DOMAIN command :
           command[i] = "-c:v" /\ command[i + 1] = "libx264"

\* The run_ffmpeg_command call has ended.
RunEnded == rpc \in {"returned", "raised"}

\* How the call may stand with respect to its engine process.
RunOutcome ==
    /\ spawns <= 1
    /\ rpc = "communicate" => (spawns = 1 /\ returncode = "None")
    /\ rpc = "returned" <=> returncode = "0"
    /\ returncode \in {"1", "-9"} => rpc = "raised"
    /\ RunEnded => spawns = 1
    /\ (rpc = "raised" /\ returncode = "None") => semaphore = Capacity

\* C28: one call of run_ffmpeg_command calls create_subprocess_exec at most
\* once; it has returned exactly when the engine exited with code 0; it
\* raises when the engine exits non-zero and when the spawn fails; and once
\* it has ended it spawns nothing more.
C28_OneSpawnNoRetry ==
    [][/\ RunOutcome'
       /\ RunEnded => (rpc' = rpc /\ spawns' = spawns
                       /\ returncode' = returncode)]_vars

\* The engine exited non-zero and the call raised after its single spawn.
C28_Witness ==
    /\ rpc = "raised"
    /\ returncode = "1"
    /\ spawns = 1

\* The engine could not be spawned and the call raised.
C28_WitnessSpawnFailure ==
    /\ rpc = "raised"
    /\ returncode = "None"
    /\ process = "none"
    /\ spawns = 1

\* The engine exited with 0 and the call returned.
C28_WitnessReturned ==
    /\ rpc = "returned"
    /\ returncode = "0"
    /\ spawns = 1

-----------------------------------------------------------------------------
(* Claims about the order of the steps of a variant coroutine, under Spec. *)

\* The positions a coroutine may take next: probe, first assembly, second
\* assembly for variant1, variant2, variant5 and variant6 only, engine run,
\* cleanup of the first artifact, cleanup of the second.
Successors(j, p) ==
    CASE p = "start" -> {"asm1", "done"}
      [] p = "asm1" -> {"concat1", "done"}
      [] p = "concat1" -> IF j \in {1, 2, 5, 6} THEN {"asm2", "done"}
                                                 ELSE {"run", "done"}
      [] p = "asm2" -> {"concat2", "done"}
      [] p = "concat2" -> {"run", "done"}
      [] p = "run" -> {"engine", "clean1"}
      [] p = "engine" -> {"clean1"}
      [] p = "clean1" -> IF j \in {1, 2, 5, 6} THEN {"sleep1", "clean2", "done"}
                                                ELSE {"sleep1", "done"}
      [] p = "sleep1" -> IF j \in {1, 2, 5, 6} THEN {"clean1", "clean2"}
                                                ELSE {"clean1", "done"}
      [] p = "clean2" -> {"sleep2", "done"}
      [] p = "sleep2" -> {"clean2", "done"}
      [] OTHER -> {}

\* The artifacts the engine command of variant j reads.
Consumed(j) == IF j \in {1, 2, 5, 6} THEN {"video1", "video2"} ELSE {"video1"}

\* The engine is invoked only after every assembly of the job succeeded, and
\* while it may still run no artifact has been deleted or offered for deletion.
EngineAfterAssemblies(j) ==
    /\ pc[j] \in {"run", "engine"} =>
           /\ failed[j] = "none"
           /\ Consumed(j) \subseteq disk[j]
           /\ attempted[j] = {}
    /\ pc[j] \in {"start", "asm1", "concat1", "asm2", "concat2"} =>
           /\ attempted[j] = {}
           /\ "out" \notin disk[j]
    /\ failed[j] \in {"assembly", "probe"} =>
           /\ pc[j] = "done"
           /\ "out" \notin disk[j]
           /\ attempted[j] = {}

\* C29: whatever the other jobs do, a variant coroutine moves only forward
\* through probe, first assembly, second assembly (variant1, variant2,
\* variant5, variant6), engine run, cleanup; the engine is never invoked
\* after a failed assembly; and no artifact is deleted before the engine run
\* that reads it has ended.
C29_StepsInOrder ==
    [][\A j \in Jobs :
           /\ pc'[j] # pc[j] => pc'[j] \in Successors(j, pc[j])
           /\ EngineAfterAssemblies(j)
           /\ EngineAfterAssemblies(j)'
           /\ (disk[j] \ disk'[j]) \cap {"video1", "video2"} # {}
                  => pc[j] \in {"clean1", "clean2"}
      ]_vars

\* A two-artifact variant went through every step while another job had
\* failed in its assembly.
C29_Witness ==
    \E j \in Jobs, k \in Jobs :
        /\ j \in {1, 2, 5, 6}
        /\ pc[j] = "done"
        /\ "out" \in disk[j]
        /\ attempted[j] = {"video1", "video2"}
        /\ failed[k] = "assembly"

-----------------------------------------------------------------------------
(* Termination of a variant job, seen from its assembly call, under SpecAsm. *)

\* The clips a call may select at all.
Selectable == {v \in videos : v \notin Range(exclude_list)}

\* C30: a launched job eventually reaches a terminal state. Its assembly
\* call, which runs its selection loop without suspending, can then always
\* leave the loop: while the loop runs below its target, fewer than two clips
\* are usable (the pool is exhausted after one selection), or some usable
\* clip ends the loop's wait by adding a positive duration or by failing its
\* probe.
C30_JobCanReachTerminalState ==
    (apc = "loop" /\ total_duration < duration)
        => \/ Cardinality(Selectable) < 2
           \/ \E v \in Selectable : ~probe[v].ok \/ probe[v].d > 0

-----------------------------------------------------------------------------
(* A mixer call on a folder an earlier call has worked on, under SpecMix. *)

\* C32: the mixer schedules variant outputs only, never a file with a
\* `_music` suffix, so a call on a folder that an earlier call has worked on
\* writes no name with more than one `_music` suffix.
C32_MixerTakesVariantOutputsOnly ==
    /\ \A f \in DOMAIN tasks : f[2] = 0
    /\ \A out \in written : out[2] = 1

-----------------------------------------------------------------------------
(* The cleanup phase of a two-artifact variant, under Spec. *)

\* C33: a two-artifact variant that has ended after attempting the deletion
\* of its first artifact has attempted the deletion of its second artifact
\* too, whatever became of the attempts on the first.
C33_SecondArtifactCleanupAttempted ==
    \A j \in Jobs :
        (j \in TwoArtifacts /\ pc[j] = "done" /\ "video1" \in attempted[j])
            => "video2" \in attempted[j]

-----------------------------------------------------------------------------
(* The selection phase of create_distraction_video, under SpecAsm. *)

\* The errors a call raises before it has written anything.
SelectionErrors == {"NoCandidates", "InsufficientClips", "ProbeFailure"}

\* The step ends the current call.
CallEnds == Len(ret') = Len(ret) + 1

\* C34: a call that fails during selection (empty pool, no clip added, probe
\* failure) fails before the manifest is written and the engine spawned, and
\* leaves no manifest and no artifact of its own; a call that returns has at
\* least one clip in its manifest; and a call for a target of 0 or less
\* fails, with InsufficientClips when the pool is not empty.
C34_SelectionFailureWritesNothing ==
    [][/\ (CallEnds /\ Last(ret').kind \in SelectionErrors)
           => /\ apc \in {"enter", "loop", "after"}
              /\ tempfiles' = tempfiles
              /\ <<call, "list">> \notin tempfiles'
              /\ <<call, "video">> \notin tempfiles'
       /\ (CallEnds /\ Last(ret').status = "ok")
           => Last(ret').manifest # <<>>
       /\ (CallEnds /\ duration <= 0)
           => /\ Last(ret').status = "error"
              /\ videos # {} => Last(ret').kind = "InsufficientClips"
      ]_vars

\* A call for target 0 on a folder with clips failed with no clip added.
C34_Witness ==
    /\ duration = 0
    /\ videos # {}
    /\ Len(ret) = 1
    /\ ret[1].kind = "InsufficientClips"
    /\ tempfiles = {}

\* A call failed on a clip's probe after an earlier selection.
C34_WitnessProbeFailure ==
    /\ Len(ret) = 1
    /\ ret[1].kind = "ProbeFailure"
    /\ file_list # <<>>
    /\ tempfiles = {}

\* The loop is about to run an iteration.
Iterating ==
    /\ apc = "loop"
    /\ total_duration < duration
    /\ Len(file_list) < MaxPicks

\* The used list at the moment of the draw: emptied when line 26 found no
\* candidate.
UsedAtDraw ==
    IF Available(used_videos, exclude_list) = {} THEN <<>> ELSE used_videos

\* The candidate set the clip is drawn from at line 34.
DrawnFrom ==
    IF Available(used_videos, exclude_list) = {}
    THEN AvailableAfterReset(used_videos, exclude_list)
    ELSE Available(used_videos, exclude_list)

\* The test of line 36 is false for every clip that may be drawn.
RedrawUnreachable ==
    \A video \in DrawnFrom :
        ~(UsedAtDraw # <<>> /\ video = Last(UsedAtDraw))

\* C35: in the selection loop no clip that may be drawn equals the last
\* element of the used list, so the re-draw branch of lines 36-37 is never
\* taken; an iteration that draws a clip appends it to the used list, never
\* draws the previous pick again, and adds the clip and its duration to the
\* manifest and the total (or ends the call when the clip's probe fails).
C35_NoSilentRedraw ==
    [][Iterating =>
          /\ RedrawUnreachable
          /\ DrawnFrom # {} =>
                 \E video \in DrawnFrom :
                     /\ used_videos' = Append(UsedAtDraw, video)
                     /\ used_videos # <<>> => video # Last(used_videos)
                     /\ IF probe[video].ok
                        THEN /\ apc' = "loop"
                             /\ file_list' = Append(file_list, video)
                             /\ total_duration' =
                                    total_duration + probe[video].d
                        ELSE /\ apc' = "aborted"
                             /\ file_list' = file_list
                             /\ total_duration' = total_duration
      ]_vars

\* A clip was drawn right after a reset: the used list holds it alone while
\* the manifest holds earlier selections, the last of them another clip.
C35_Witness ==
    /\ apc = "loop"
    /\ Len(file_list) >= 2
    /\ used_videos = <<Last(file_list)>>
    /\ file_list[Len(file_list) - 1] # Last(file_list)

-----------------------------------------------------------------------------
(* The engine process and its permit, under SpecCmd. *)

\* C31: when run_ffmpeg_command has given its permit back, the engine
\* process it spawned under that permit has exited, however the wait for the
\* process ended.
C31_NoEngineOutlivesPermit ==
    (RunEnded /\ semaphore = Capacity) => process # "running"

====
